---- MODULE Spec2Model ----
(***************************************************************************)
(* A model of the orchestration core of kanpai/redel: one agent node with  *)
(* its run state (BaseKani), its delegation manager (DelegateWaitMixin),   *)
(* the blocked tool (BrowsingMixin) and the application root (Kanpai) with *)
(* its event queue, dispatch loop, shared browser and close().             *)
(***************************************************************************)
EXTENDS Naturals, Integers, Sequences, FiniteSets, TLC

\* ------------------------------------------------------------------ bounds
MaxHelpers == 2     \* helper nodes one agent creates
MaxTasks == 2       \* units of work one agent launches
MaxQueue == 2       \* events held in the queue at once
MaxLen == 3         \* characters in an instruction or a user message
MaxRounds == 1      \* full rounds (user queries) one agent receives
MaxCloseCalls == 2  \* calls of close() on the application root
MaxListeners == 2   \* listeners subscribed to the event bus
MaxChats == 2       \* user messages in the history of an agent running chat rounds

\* ---------------------------------------------------------------- values
None == "<None>"

STOPPED == "stopped"
RUNNING == "running"
WAITING == "waiting"
ERRORED == "errored"
RunState == {STOPPED, RUNNING, WAITING, ERRORED}

USER == "user"
ASSISTANT == "assistant"
FUNCTION == "function"

\* the agent modelled, and the names create_delegate_kani gives its helpers
SelfId == "root"
HelperName(i) == "h" \o ToString(i)
HelperNames == {HelperName(i) : i \in 1..(MaxHelpers + 1)}

\* the tool-call slots of the agent: calls of wait() that can be in flight
Slots == {1, 2}
SeqSlots == {1}

\* ------------------------------------------------------------------- text
\* Instructions and user messages are character sequences.
Alphabet == {"a", "b"}
RECURSIVE StrsOfLen(_)
StrsOfLen(n) ==
    IF n = 0 THEN {<<>>}
    ELSE {Append(s, ch) : s \in StrsOfLen(n - 1), ch \in Alphabet}
Strs == UNION {StrsOfLen(n) : n \in 0..MaxLen}

Max(a, b) == IF a >= b THEN a ELSE b

\* rapidfuzz: the Indel similarity is the longest common subsequence
RECURSIVE LCS(_, _)
LCS(s, t) ==
    IF s = <<>> \/ t = <<>> THEN 0
    ELSE IF Head(s) = Head(t) THEN 1 + LCS(Tail(s), Tail(t))
    ELSE Max(LCS(Tail(s), t), LCS(s, Tail(t)))

\* fuzz.ratio(s, t) = 100 * (1 - (len(s) + len(t) - 2 * lcs) / (len(s) + len(t))),
\* kept exact as the fraction RatioNum / RatioDen (100 for two empty strings).
LCSTable == [s \in Strs, t \in Strs |-> LCS(s, t)]
RatioNum(s, t) == IF Len(s) + Len(t) = 0 THEN 100 ELSE 200 * LCSTable[s, t]
RatioDen(s, t) == IF Len(s) + Len(t) = 0 THEN 1 ELSE Len(s) + Len(t)

\* fuzz.ratio(instructions, last_user_message.content) > 80
RatioAboveUndoubled(s, t, pct) == 100 * LCSTable[s, t] > pct * RatioDen(s, t)
RatioAbove(s, t, pct) == RatioNum(s, t) > pct * RatioDen(s, t)

\* "\n".join(parts) and "\n\n=====\n\n".join(parts)
RECURSIVE StrJoin(_, _)
StrJoin(sep, parts) ==
    IF parts = <<>> THEN ""
    ELSE IF Len(parts) = 1 THEN parts[1]
    ELSE parts[1] \o sep \o StrJoin(sep, Tail(parts))

\* every order in which the members of a finite set can be iterated
Orderings(S) ==
    {f \in [1..Cardinality(S) -> S] : \A i, j \in 1..Cardinality(S) : f[i] = f[j] => i = j}

\* --------------------------------------------------------------- messages
Message(role, content) == [role |-> role, content |-> content]

\* what a helper's full_round yields: assistant text, function calls (assistant
\* messages without content) and function results
HelperRuns ==
    { <<Message(ASSISTANT, "x"), Message(ASSISTANT, None), Message(FUNCTION, "f"),
        Message(ASSISTANT, ""), Message(ASSISTANT, "y")>> }

\* the instructions and queries the agent sees in the orchestration runs
Queries == {<<"a", "b", "a">>}
Instructions == {<<"a", "b">>, <<"a", "b", "a">>, <<"b", "b">>}

\* ----------------------------------------------------------------- events
KaniStateChange(id, s) == [type |-> "kani_state_change", id |-> id, state |-> s]
KaniMessage(id, msg) == [type |-> "kani_message", id |-> id, msg |-> msg]
KaniSpawn(id, parent) == [type |-> "kani_spawn", id |-> id, parent |-> parent]

\* ------------------------------------------------------------------ state
VARIABLES
    state,           \* BaseKani.state of the agent
    chat_history,    \* the agent's chat history
    old_state,       \* old_state of each live set_state frame (None: no frame)
    helpers,         \* DelegateWaitMixin.helpers: the names of the helper nodes
    helper_futures,  \* DelegateWaitMixin.helper_futures: name -> task
    tasks,           \* the tasks created by delegate, in creation order
    pc,              \* where each tool-call slot is suspended
    until,           \* the argument of the wait() suspended in each slot
    fs,              \* the futures the wait() in each slot awaits
    ret,             \* the outcome of the call that finished last
    event_queue,     \* Kanpai.event_queue
    dispatch_task,   \* Kanpai.dispatch_task: "running" or "cancelled"
    listeners,       \* the listeners subscribed to the bus, in registration order
    received,        \* the events each listener has been invoked with
    playwright,      \* Kanpai.playwright: the browser runtime (None before the start)
    browser,         \* Kanpai.browser: the browser (None before the launch)
    started,         \* how many browser runtimes have been started
    launched,        \* how many browsers have been launched
    gb_pc,           \* where the get_browser() of each agent slot is suspended
    gb_ret,          \* what the last get_browser() of each agent slot returned
    close_pc,        \* the release the running close() is about to make
    close_calls,     \* how many times close() has been called
    close_ret,       \* how the last close() ended
    attempted,       \* the releases the last close() attempted
    release_calls    \* how many times each resource has been released

agentVars == <<state, chat_history, old_state, helpers, helper_futures, tasks, pc, until,
               fs, ret>>
appVars == <<dispatch_task, listeners, received, playwright, browser, started, launched,
             gb_pc, gb_ret, close_pc, close_calls, close_ret, attempted, release_calls>>
vars == <<agentVars, event_queue, appVars>>

RoundFrame == 0
Frames == {RoundFrame} \cup Slots

TaskIds == 1..Len(tasks)
Finished(t) == tasks[t].status # "running"

\* the outcome of a call: the text it returned or the error it raised, the
\* helper it names and the futures it awaited or created
NoCall == [fn |-> "none", kind |-> "none", text |-> "", helper |-> None, fs |-> {}]
Returned(fn, text, helper, futures) ==
    [fn |-> fn, kind |-> "text", text |-> text, helper |-> helper, fs |-> futures]
Raised(fn, error, futures) ==
    [fn |-> fn, kind |-> "raise", text |-> error, helper |-> None, fs |-> futures]

\* --------------------------------------------------------- BaseKani.set_state
\* A scoped transition transforms the agent's state and the event queue.
\* Kanpai.dispatch: put_nowait on the queue
dispatch(queue, ev) == Append(queue, ev)

\* entering the with block: old_state = self.state; self.state = state; dispatch
SetStateEnterEarly(cur, queue, new) ==
    [state |-> new, queue |-> dispatch(queue, KaniStateChange(SelfId, cur)), old |-> cur]
SetStateEnter(cur, queue, new) ==
    [state |-> new, queue |-> dispatch(queue, KaniStateChange(SelfId, new)), old |-> cur]

\* the finally clause: restore and dispatch unless the state is ERRORED
SetStateExitKeeping(cur, queue, old) == [state |-> cur, queue |-> queue]
SetStateExitAlways(cur, queue, old) ==
    [state |-> old, queue |-> dispatch(queue, KaniStateChange(SelfId, old))]
SetStateExitStopped(cur, queue, old) ==
    IF cur # ERRORED
    THEN [state |-> STOPPED, queue |-> dispatch(queue, KaniStateChange(SelfId, STOPPED))]
    ELSE [state |-> cur, queue |-> queue]
SetStateExit(cur, queue, old) ==
    IF cur # ERRORED
    THEN [state |-> old, queue |-> dispatch(queue, KaniStateChange(SelfId, old))]
    ELSE [state |-> cur, queue |-> queue]

\* BaseKani.last_user_message: next(m for m in chat_history if m.role == USER)
IsUser(m) == m.role = USER
NoMessage == Message(None, None)
LastUserMessage(history) ==
    LET users == SelectSeq(history, IsUser)
    IN  IF users = <<>> THEN NoMessage ELSE Head(users)

\* ------------------------------------------------------------- texts returned
DelegateThreshold == 80
TooSimilarText ==
    "You shouldn't delegate the entire task to a helper. Try breaking it up into smaller steps and call this again."
BusyText(who) ==
    "'" \o who \o "' is currently busy. You can leave `who` empty to find a new available helper or wait on '"
    \o who \o "' and retry."
HelpingText(name) == "'" \o name \o "' is helping you with this request."
UsageText == "The \"until\" param must be the name of a running helper, \"next\", or \"all\"."
BlockedText == "The block has been noted. Don't use this site for future queries."
ResultBlock(name, result) == name \o ":\n" \o result
Separator == "\n\n=====\n\n"

\* _task: the assistant messages with content, joined by newlines
HasText(m) == m.role = ASSISTANT /\ m.content # None /\ m.content # ""
Contents(msgs) == [i \in 1..Len(msgs) |-> msgs[i].content]
JoinedText(msgs) == StrJoin("\n", Contents(SelectSeq(msgs, HasText)))

\* dict helpers for helper_futures
DictSet(d, k, v) == [n \in DOMAIN d \cup {k} |-> IF n = k THEN v ELSE d[n]]
DictPop(d, k) == [n \in DOMAIN d \ {k} |-> d[n]]
DictValues(d) == {d[n] : n \in DOMAIN d}
EmptyDict == <<>>

\* ----------------------------------------------------------- application root
ListenerIds == 1..MaxListeners
\* the resources close() releases, in the order of its statements
Resources == {"engine", "long_engine", "browser", "playwright"}

\* ------------------------------------------------------------------- Init
Init ==
    /\ state = STOPPED
    /\ chat_history = <<>>
    /\ old_state = [f \in Frames |-> None]
    /\ helpers = {}
    /\ helper_futures = EmptyDict
    /\ tasks = <<>>
    /\ pc = [c \in Slots |-> "idle"]
    /\ until = [c \in Slots |-> None]
    /\ fs = [c \in Slots |-> {}]
    /\ ret = NoCall
    /\ event_queue = <<>>
    /\ dispatch_task = "running"
    /\ listeners = <<>>
    /\ received = [l \in ListenerIds |-> <<>>]
    /\ playwright = None
    /\ browser = None
    /\ started = 0
    /\ launched = 0
    /\ gb_pc = [c \in Slots |-> "idle"]
    /\ gb_ret = [c \in Slots |-> None]
    /\ close_pc = "idle"
    /\ close_calls = 0
    /\ close_ret = "none"
    /\ attempted = {}
    /\ release_calls = [r \in Resources |-> 0]

InRound == old_state[RoundFrame] # None
AllIdle == \A c \in Slots : pc[c] = "idle"
UserCount == Len(SelectSeq(chat_history, IsUser))

\* --------------------------------------------------------- BaseKani.full_round
\* full_round(query): enter the RUNNING scope, then kani adds the user message
\* to the history (add_to_history dispatches KaniMessage)
RoundStart(query) ==
    /\ ~InRound
    /\ AllIdle
    /\ UserCount < MaxRounds
    /\ Len(event_queue) + 2 <= MaxQueue
    /\ LET e == SetStateEnter(state, event_queue, RUNNING)
           msg == Message(USER, query)
       IN  /\ state' = e.state
           /\ old_state' = [old_state EXCEPT ![RoundFrame] = e.old]
           /\ chat_history' = Append(chat_history, msg)
           /\ event_queue' = dispatch(e.queue, KaniMessage(SelfId, msg))
    /\ ret' = NoCall
    /\ UNCHANGED <<helpers, helper_futures, tasks, pc, until, fs>>
    /\ UNCHANGED appVars

\* the round ends: the final assistant message is added, then the scope exits
RoundEnd ==
    /\ InRound
    /\ AllIdle
    /\ Len(event_queue) + 2 <= MaxQueue
    /\ LET msg == Message(ASSISTANT, "done")
           x == SetStateExit(state, dispatch(event_queue, KaniMessage(SelfId, msg)),
                             old_state[RoundFrame])
       IN  /\ state' = x.state
           /\ event_queue' = x.queue
           /\ chat_history' = Append(chat_history, msg)
    /\ old_state' = [old_state EXCEPT ![RoundFrame] = None]
    /\ ret' = Returned("full_round", "done", None, {})
    /\ UNCHANGED <<helpers, helper_futures, tasks, pc, until, fs>>
    /\ UNCHANGED appVars

\* ------------------------------------------------- DelegateWaitMixin.delegate
Truthy(who) == who # None /\ who # ""

\* the loop guard: the instructions are >80% the same as the current goal
TooSimilar(instructions, history) ==
    LET last == LastUserMessage(history)
    IN  last # NoMessage /\ RatioAbove(instructions, last.content, DelegateThreshold)

\* who names a helper that has a future registered
IsBusyNever(who, hs, futures) == FALSE
IsBusy(who, hs, futures) == Truthy(who) /\ who \in hs /\ who \in DOMAIN futures

\* create_delegate_kani: a new child node, named by its fresh id
NewHelperName(hs) == HelperName(Cardinality(hs) + 1)

\* self.helpers[helper.name] = helper
HelpersForgetting(hs, helper) == hs
HelpersWith(hs, helper) == hs \cup {helper}

NewTask(helper) == [helper |-> helper, status |-> "running", result |-> ""]

Delegate(instructions, who) ==
    /\ InRound
    /\ IF TooSimilar(instructions, chat_history)
       THEN /\ ret' = Returned("delegate", TooSimilarText, None, {})
            /\ UNCHANGED <<helpers, helper_futures, tasks, event_queue>>
       ELSE IF IsBusy(who, helpers, helper_futures)
       THEN /\ ret' = Returned("delegate", BusyText(who), None, {})
            /\ UNCHANGED <<helpers, helper_futures, tasks, event_queue>>
       ELSE LET reuse == Truthy(who) /\ who \in helpers
                helper == IF reuse THEN who ELSE NewHelperName(helpers)
                task == Len(tasks) + 1
            IN  /\ Len(tasks) < MaxTasks
                /\ reuse \/ (Cardinality(helpers) < MaxHelpers
                             /\ Len(event_queue) < MaxQueue)
                /\ helpers' = HelpersWith(helpers, helper)
                /\ event_queue' = IF reuse THEN event_queue
                                  ELSE dispatch(event_queue, KaniSpawn(helper, SelfId))
                /\ tasks' = Append(tasks, NewTask(helper))
                /\ helper_futures' = DictSet(helper_futures, helper, task)
                /\ ret' = Returned("delegate", HelpingText(helper), helper, {task})
    /\ UNCHANGED <<state, chat_history, old_state, pc, until, fs>>
    /\ UNCHANGED appVars

\* _task: the helper's round ends; its assistant texts are joined
TaskFinish(t, msgs) ==
    /\ t \in TaskIds
    /\ ~Finished(t)
    /\ tasks' = [tasks EXCEPT ![t].status = "done", ![t].result = JoinedText(msgs)]
    /\ UNCHANGED <<state, chat_history, old_state, helpers, helper_futures, pc, until, fs,
                   ret, event_queue>>
    /\ UNCHANGED appVars

\* _task: the helper's round or its cleanup raises
TaskFail(t) ==
    /\ t \in TaskIds
    /\ ~Finished(t)
    /\ tasks' = [tasks EXCEPT ![t].status = "failed"]
    /\ UNCHANGED <<state, chat_history, old_state, helpers, helper_futures, pc, until, fs,
                   ret, event_queue>>
    /\ UNCHANGED appVars

\* ----------------------------------------------------- DelegateWaitMixin.wait
\* what wait("next") and wait("all") leave in helper_futures
AfterWaitNextClearing(futures, helper_name) == EmptyDict
AfterWaitNext(futures, helper_name) == DictPop(futures, helper_name)
AfterWaitAllKeeping(futures) == futures
AfterWaitAll(futures) == EmptyDict

\* asyncio.wait(..., FIRST_COMPLETED) and (..., ALL_COMPLETED) can return
FirstCompleted(awaited) == \E t \in awaited : Finished(t)
AllCompleted(awaited) == \A t \in awaited : Finished(t)

WaitFn(arg) == IF arg = "next" THEN "wait_next" ELSE "wait_all"

\* the check of the argument
WaitUsage(c, arg) ==
    /\ InRound
    /\ pc[c] = "idle"
    /\ arg \notin DOMAIN helper_futures
    /\ arg \notin {"next", "all"}
    /\ ret' = Returned("wait", UsageText, None, {})
    /\ UNCHANGED <<state, chat_history, old_state, helpers, helper_futures, tasks, pc,
                   until, fs, event_queue>>
    /\ UNCHANGED appVars

\* wait("next") / wait("all"): enter the WAITING scope and call asyncio.wait,
\* which raises ValueError on an empty set and suspends otherwise
WaitCall(c, arg) ==
    /\ InRound
    /\ pc[c] = "idle"
    /\ arg \in {"next", "all"}
    /\ LET e == SetStateEnter(state, event_queue, WAITING)
           awaited == DictValues(helper_futures)
       IN  IF awaited = {}
           THEN LET x == SetStateExit(e.state, e.queue, e.old)
                IN  /\ Len(x.queue) <= MaxQueue
                    /\ state' = x.state
                    /\ event_queue' = x.queue
                    /\ ret' = Raised(WaitFn(arg), "ValueError", {})
                    /\ UNCHANGED <<old_state, pc, until, fs>>
           ELSE /\ Len(e.queue) <= MaxQueue
                /\ state' = e.state
                /\ event_queue' = e.queue
                /\ old_state' = [old_state EXCEPT ![c] = e.old]
                /\ pc' = [pc EXCEPT ![c] = WaitFn(arg)]
                /\ until' = [until EXCEPT ![c] = arg]
                /\ fs' = [fs EXCEPT ![c] = awaited]
                /\ ret' = NoCall
    /\ UNCHANGED <<chat_history, helpers, helper_futures, tasks>>
    /\ UNCHANGED appVars

\* leaving a suspended wait(): the frame and the slot are released
Leave(c, x, outcome) ==
    /\ Len(x.queue) <= MaxQueue
    /\ state' = x.state
    /\ event_queue' = x.queue
    /\ old_state' = [old_state EXCEPT ![c] = None]
    /\ pc' = [pc EXCEPT ![c] = "idle"]
    /\ until' = [until EXCEPT ![c] = None]
    /\ fs' = [fs EXCEPT ![c] = {}]
    /\ ret' = outcome

\* wait("next") resumes: done.pop(), future.result(), helper_futures.pop(name)
WaitNextResume(c) ==
    /\ pc[c] = "wait_next"
    /\ FirstCompleted(fs[c])
    /\ LET x == SetStateExit(state, event_queue, old_state[c])
           done == {t \in fs[c] : Finished(t)}
       IN  \E future \in done :
             LET helper_name == tasks[future].helper
             IN  IF tasks[future].status = "failed"
                 THEN /\ Leave(c, x, Raised("wait_next", "HelperError", fs[c]))
                      /\ UNCHANGED helper_futures
                 ELSE IF helper_name \notin DOMAIN helper_futures
                 THEN /\ Leave(c, x, Raised("wait_next", "KeyError", fs[c]))
                      /\ UNCHANGED helper_futures
                 ELSE /\ Leave(c, x, Returned("wait_next",
                                   ResultBlock(helper_name, tasks[future].result),
                                   helper_name, fs[c]))
                      /\ helper_futures' = AfterWaitNext(helper_futures, helper_name)
    /\ UNCHANGED <<chat_history, helpers, tasks>>
    /\ UNCHANGED appVars

\* wait("all") resumes: one block per future of done, in the set's iteration
\* order; then helper_futures.clear()
WaitAllResume(c) ==
    /\ pc[c] = "wait_all"
    /\ AllCompleted(fs[c])
    /\ LET x == SetStateExit(state, event_queue, old_state[c])
           done == {t \in fs[c] : Finished(t)}
       IN  IF \E t \in done : tasks[t].status = "failed"
           THEN /\ Leave(c, x, Raised("wait_all", "HelperError", fs[c]))
                /\ UNCHANGED helper_futures
           ELSE \E order \in Orderings(done) :
                  LET results == [i \in 1..Len(order) |->
                                    ResultBlock(tasks[order[i]].helper, tasks[order[i]].result)]
                  IN  /\ Leave(c, x, Returned("wait_all", StrJoin(Separator, results),
                                              None, fs[c]))
                      /\ helper_futures' = AfterWaitAll(helper_futures)
    /\ UNCHANGED <<chat_history, helpers, tasks>>
    /\ UNCHANGED appVars

\* the outcome of awaiting one future under the name given to wait()
NamedOutcome(arg, future) ==
    IF tasks[future].status = "failed"
    THEN Raised("wait_named", "HelperError", {future})
    ELSE Returned("wait_named", ResultBlock(arg, tasks[future].result), arg, {future})

\* wait(name): helper_futures.pop(name), enter the WAITING scope, await the
\* future (no suspension when it is already done)
WaitNamed(c, arg) ==
    /\ InRound
    /\ pc[c] = "idle"
    /\ arg \in DOMAIN helper_futures
    /\ arg \notin {"next", "all"}
    /\ LET future == helper_futures[arg]
           e == SetStateEnter(state, event_queue, WAITING)
       IN  /\ helper_futures' = DictPop(helper_futures, arg)
           /\ IF Finished(future)
              THEN LET x == SetStateExit(e.state, e.queue, e.old)
                   IN  /\ Len(x.queue) <= MaxQueue
                       /\ state' = x.state
                       /\ event_queue' = x.queue
                       /\ ret' = NamedOutcome(arg, future)
                       /\ UNCHANGED <<old_state, pc, until, fs>>
              ELSE /\ Len(e.queue) <= MaxQueue
                   /\ state' = e.state
                   /\ event_queue' = e.queue
                   /\ old_state' = [old_state EXCEPT ![c] = e.old]
                   /\ pc' = [pc EXCEPT ![c] = "wait_named"]
                   /\ until' = [until EXCEPT ![c] = arg]
                   /\ fs' = [fs EXCEPT ![c] = {future}]
                   /\ ret' = NoCall
    /\ UNCHANGED <<chat_history, helpers, tasks>>
    /\ UNCHANGED appVars

WaitNamedResume(c) ==
    /\ pc[c] = "wait_named"
    /\ AllCompleted(fs[c])
    /\ LET x == SetStateExit(state, event_queue, old_state[c])
       IN  \E future \in fs[c] : Leave(c, x, NamedOutcome(until[c], future))
    /\ UNCHANGED <<chat_history, helpers, helper_futures, tasks>>
    /\ UNCHANGED appVars

\* ---------------------------------------------------- BrowsingMixin.blocked
Blocked ==
    /\ InRound
    /\ Len(event_queue) < MaxQueue
    /\ state' = ERRORED
    /\ event_queue' = dispatch(event_queue, KaniStateChange(SelfId, ERRORED))
    /\ ret' = Returned("blocked", BlockedText, None, {})
    /\ UNCHANGED <<chat_history, old_state, helpers, helper_futures, tasks, pc, until, fs>>
    /\ UNCHANGED appVars

\* ------------------------------------------------------ Kanpai._dispatch_task
\* one turn of the loop: event = await self.event_queue.get(); nothing is
\* done with the event
DispatchTask ==
    /\ dispatch_task = "running"
    /\ event_queue # <<>>
    /\ event_queue' = Tail(event_queue)
    /\ UNCHANGED <<agentVars, appVars>>

\* ------------------------------------------------------------------- Spec
WhoArgs == HelperNames \cup {None, ""}
UntilArgs == HelperNames \cup {"next", "all", "soon"}

\* The round makes its tool calls one at a time: a call starts when no other
\* call of the agent is suspended.
Next ==
    \/ \E q \in Queries : RoundStart(q)
    \/ RoundEnd
    \/ \E i \in Instructions, who \in WhoArgs : AllIdle /\ Delegate(i, who)
    \/ \E c \in SeqSlots, arg \in UntilArgs : AllIdle /\ WaitUsage(c, arg)
    \/ \E c \in SeqSlots, arg \in UntilArgs : AllIdle /\ WaitCall(c, arg)
    \/ \E c \in SeqSlots, arg \in UntilArgs : AllIdle /\ WaitNamed(c, arg)
    \/ AllIdle /\ Blocked
    \/ \E c \in SeqSlots : WaitNextResume(c)
    \/ \E c \in SeqSlots : WaitAllResume(c)
    \/ \E c \in SeqSlots : WaitNamedResume(c)
    \/ \E t \in 1..MaxTasks, msgs \in HelperRuns : TaskFinish(t, msgs)
    \/ \E t \in 1..MaxTasks : TaskFail(t)
    \/ DispatchTask

Spec == Init /\ [][Next]_vars

\* ------------------------------------------------------------ SpecInOrder
\* The runs of Spec in which the units of work complete in the order in which
\* they were launched: a unit completes when all the earlier ones have.
EarlierCompleted(t) == \A u \in TaskIds : u < t => Finished(u)

NextInOrder ==
    \/ \E q \in Queries : RoundStart(q)
    \/ RoundEnd
    \/ \E i \in Instructions, who \in WhoArgs : AllIdle /\ Delegate(i, who)
    \/ \E c \in SeqSlots, arg \in UntilArgs : AllIdle /\ WaitUsage(c, arg)
    \/ \E c \in SeqSlots, arg \in UntilArgs : AllIdle /\ WaitCall(c, arg)
    \/ \E c \in SeqSlots, arg \in UntilArgs : AllIdle /\ WaitNamed(c, arg)
    \/ AllIdle /\ Blocked
    \/ \E c \in SeqSlots : WaitNextResume(c)
    \/ \E c \in SeqSlots : WaitAllResume(c)
    \/ \E c \in SeqSlots : WaitNamedResume(c)
    \/ \E t \in 1..MaxTasks, msgs \in HelperRuns : EarlierCompleted(t) /\ TaskFinish(t, msgs)
    \/ \E t \in 1..MaxTasks : EarlierCompleted(t) /\ TaskFail(t)
    \/ DispatchTask

SpecInOrder == Init /\ [][NextInOrder]_vars

\* --------------------------------------------------------------- SpecLive
\* the unit of work t completes, by returning or by raising
TaskCompletes(t) == (\E msgs \in HelperRuns : TaskFinish(t, msgs)) \/ TaskFail(t)

\* The tool calls of one round, made one at a time, from the state a round is
\* in once its query is in the history and its events have been taken.
InitLive ==
    /\ state = RUNNING
    /\ chat_history \in {<<Message(USER, q)>> : q \in Queries}
    /\ old_state = [f \in Frames |-> IF f = RoundFrame THEN STOPPED ELSE None]
    /\ helpers = {}
    /\ helper_futures = EmptyDict
    /\ tasks = <<>>
    /\ pc = [c \in Slots |-> "idle"]
    /\ until = [c \in Slots |-> None]
    /\ fs = [c \in Slots |-> {}]
    /\ ret = NoCall
    /\ event_queue = <<>>
    /\ dispatch_task = "running"
    /\ listeners = <<>>
    /\ received = [l \in ListenerIds |-> <<>>]
    /\ playwright = None
    /\ browser = None
    /\ started = 0
    /\ launched = 0
    /\ gb_pc = [c \in Slots |-> "idle"]
    /\ gb_ret = [c \in Slots |-> None]
    /\ close_pc = "idle"
    /\ close_calls = 0
    /\ close_ret = "none"
    /\ attempted = {}
    /\ release_calls = [r \in Resources |-> 0]

NextLive ==
    \/ \E i \in Instructions, who \in WhoArgs : AllIdle /\ Delegate(i, who)
    \/ \E c \in SeqSlots, arg \in UntilArgs : AllIdle /\ WaitCall(c, arg)
    \/ \E c \in SeqSlots, arg \in UntilArgs : AllIdle /\ WaitNamed(c, arg)
    \/ AllIdle /\ Blocked
    \/ \E c \in SeqSlots : WaitNextResume(c)
    \/ \E c \in SeqSlots : WaitAllResume(c)
    \/ \E c \in SeqSlots : WaitNamedResume(c)
    \/ \E t \in 1..MaxTasks : TaskCompletes(t)
    \/ DispatchTask

\* The event loop runs every callback that is ready: the dispatch loop takes
\* the events, a wait whose futures are done resumes; and every unit of work
\* completes.
Fairness ==
    /\ WF_vars(DispatchTask)
    /\ \A c \in SeqSlots : /\ WF_vars(WaitNextResume(c))
                            /\ WF_vars(WaitAllResume(c))
                            /\ WF_vars(WaitNamedResume(c))
    /\ \A t \in 1..MaxTasks : WF_vars(TaskCompletes(t))

SpecLive == InitLive /\ [][NextLive]_vars /\ Fairness

\* -------------------------------------------------------- BaseKani.chat_round
\* chat_round(query): enter the RUNNING scope, then kani adds the user message
\* to the history and awaits the completion
ChatRoundStart(c, query) ==
    /\ pc[c] = "idle"
    /\ UserCount < MaxChats
    /\ LET e == SetStateEnter(state, event_queue, RUNNING)
           msg == Message(USER, query)
       IN  /\ Len(e.queue) < MaxQueue
           /\ state' = e.state
           /\ old_state' = [old_state EXCEPT ![c] = e.old]
           /\ chat_history' = Append(chat_history, msg)
           /\ event_queue' = dispatch(e.queue, KaniMessage(SelfId, msg))
    /\ pc' = [pc EXCEPT ![c] = "chat_round"]
    /\ ret' = NoCall
    /\ UNCHANGED <<helpers, helper_futures, tasks, until, fs>>
    /\ UNCHANGED appVars

\* the completion arrives: the assistant message is added, then the scope exits
ChatRoundEnd(c) ==
    /\ pc[c] = "chat_round"
    /\ LET msg == Message(ASSISTANT, "done")
           x == SetStateExit(state, dispatch(event_queue, KaniMessage(SelfId, msg)),
                             old_state[c])
       IN  /\ Leave(c, x, Returned("chat_round", "done", None, {}))
           /\ chat_history' = Append(chat_history, msg)
    /\ UNCHANGED <<helpers, helper_futures, tasks>>
    /\ UNCHANGED appVars

\* -------------------------------------------------------------- SpecConc
\* The calls of one agent overlap: a call may start while others are suspended.
NextConc ==
    \/ \E q \in Queries : RoundStart(q)
    \/ RoundEnd
    \/ \E i \in Instructions, who \in WhoArgs : Delegate(i, who)
    \/ \E c \in Slots, arg \in UntilArgs : WaitUsage(c, arg)
    \/ \E c \in Slots, arg \in UntilArgs : WaitCall(c, arg)
    \/ \E c \in Slots, arg \in UntilArgs : WaitNamed(c, arg)
    \/ Blocked
    \/ \E c \in Slots : WaitNextResume(c)
    \/ \E c \in Slots : WaitAllResume(c)
    \/ \E c \in Slots : WaitNamedResume(c)
    \/ \E t \in 1..MaxTasks, msgs \in HelperRuns : TaskFinish(t, msgs)
    \/ \E t \in 1..MaxTasks : TaskFail(t)
    \/ DispatchTask

SpecConc == Init /\ [][NextConc]_vars

\* ------------------------------------------------------------- SpecScopes
\* The scoped transitions of one agent overlap: chat rounds and waits of the
\* same agent run at the same time, and no call sets ERRORED.
NextScopes ==
    \/ \E q \in Queries : RoundStart(q)
    \/ RoundEnd
    \/ \E c \in Slots, q \in Queries : ChatRoundStart(c, q)
    \/ \E c \in Slots : ChatRoundEnd(c)
    \/ \E i \in Instructions : Delegate(i, None)
    \/ \E c \in Slots, arg \in {"next", "all"} : WaitCall(c, arg)
    \/ \E c \in Slots : WaitNextResume(c)
    \/ \E c \in Slots : WaitAllResume(c)
    \/ \E t \in 1..MaxTasks, msgs \in HelperRuns : TaskFinish(t, msgs)
    \/ DispatchTask

SpecScopes == Init /\ [][NextScopes]_vars

\* ------------------------------------------------------------- event bus
Range(seq) == {seq[i] : i \in 1..Len(seq)}

\* subscribe(listener): the listener joins the registry, after those before it
Subscribe(l) ==
    /\ l \in ListenerIds \ Range(listeners)
    /\ listeners' = Append(listeners, l)
    /\ UNCHANGED <<agentVars, event_queue, dispatch_task, received, playwright, browser,
                   started, launched, gb_pc, gb_ret, close_pc, close_calls, close_ret,
                   attempted, release_calls>>

\* ------------------------------------------------------- Kanpai.get_browser
RuntimeHandle(n) == "playwright" \o ToString(n)
BrowserHandle(n) == "browser" \o ToString(n)

\* the call runs to its first await, or returns the browser there is
GetBrowserCall(c) ==
    /\ gb_pc[c] = "idle"
    /\ IF playwright = None
       THEN gb_pc' = [gb_pc EXCEPT ![c] = "start"] /\ gb_ret' = [gb_ret EXCEPT ![c] = None]
       ELSE IF browser = None
       THEN gb_pc' = [gb_pc EXCEPT ![c] = "launch"] /\ gb_ret' = [gb_ret EXCEPT ![c] = None]
       ELSE gb_pc' = gb_pc /\ gb_ret' = [gb_ret EXCEPT ![c] = browser]
    /\ UNCHANGED <<agentVars, event_queue, dispatch_task, listeners, received, playwright,
                   browser, started, launched, close_pc, close_calls, close_ret, attempted,
                   release_calls>>

\* async_playwright().start() returns: self.playwright is set; then the check
\* of self.browser
GetBrowserStarted(c) ==
    /\ gb_pc[c] = "start"
    /\ started' = started + 1
    /\ playwright' = RuntimeHandle(started + 1)
    /\ IF browser = None
       THEN gb_pc' = [gb_pc EXCEPT ![c] = "launch"] /\ gb_ret' = gb_ret
       ELSE gb_pc' = [gb_pc EXCEPT ![c] = "idle"] /\ gb_ret' = [gb_ret EXCEPT ![c] = browser]
    /\ UNCHANGED <<agentVars, event_queue, dispatch_task, listeners, received, browser,
                   launched, close_pc, close_calls, close_ret, attempted, release_calls>>

\* chromium.launch() returns: self.browser is set and returned
GetBrowserLaunched(c) ==
    /\ gb_pc[c] = "launch"
    /\ launched' = launched + 1
    /\ browser' = BrowserHandle(launched + 1)
    /\ gb_pc' = [gb_pc EXCEPT ![c] = "idle"]
    /\ gb_ret' = [gb_ret EXCEPT ![c] = BrowserHandle(launched + 1)]
    /\ UNCHANGED <<agentVars, event_queue, dispatch_task, listeners, received, playwright,
                   started, close_pc, close_calls, close_ret, attempted, release_calls>>

\* ------------------------------------------------------------- Kanpai.close
\* the statement close() goes on to when the release r has returned
AfterRelease(r) ==
    IF r = "engine" THEN "long_engine"
    ELSE IF r = "long_engine" /\ browser # None THEN "browser"
    ELSE IF r \in {"long_engine", "browser"} /\ playwright # None THEN "playwright"
    ELSE "idle"

\* close() is called: the dispatch task is cancelled, engine.close() is next
CloseCall ==
    /\ close_pc = "idle"
    /\ close_calls < MaxCloseCalls
    /\ close_calls' = close_calls + 1
    /\ dispatch_task' = "cancelled"
    /\ close_pc' = "engine"
    /\ close_ret' = "none"
    /\ attempted' = {}
    /\ UNCHANGED <<agentVars, event_queue, listeners, received, playwright, browser,
                   started, launched, gb_pc, gb_ret, release_calls>>

\* one awaited release: it returns and close() goes on, or it raises and the
\* exception leaves close()
CloseRelease(ok) ==
    /\ close_pc \in Resources
    /\ release_calls' = [release_calls EXCEPT ![close_pc] = @ + 1]
    /\ attempted' = attempted \cup {close_pc}
    /\ close_pc' = IF ok THEN AfterRelease(close_pc) ELSE "idle"
    /\ close_ret' = IF ~ok THEN "raised"
                    ELSE IF AfterRelease(close_pc) = "idle" THEN "returned"
                    ELSE "none"
    /\ UNCHANGED <<agentVars, event_queue, dispatch_task, listeners, received, playwright,
                   browser, started, launched, gb_pc, gb_ret, close_calls>>

\* --------------------------------------------------------------- SpecApp
\* The application root: one agent publishing the events of its rounds, the
\* dispatch loop, the listeners, the shared browser and close().
NextApp ==
    \/ \E q \in Queries : RoundStart(q)
    \/ RoundEnd
    \/ DispatchTask
    \/ \E l \in ListenerIds : Subscribe(l)
    \/ \E c \in Slots : GetBrowserCall(c)
    \/ \E c \in Slots : GetBrowserStarted(c)
    \/ \E c \in Slots : GetBrowserLaunched(c)
    \/ CloseCall
    \/ \E ok \in BOOLEAN : CloseRelease(ok)

SpecApp == Init /\ [][NextApp]_vars

\* ------------------------------------------------------------- SpecGuard
\* The loop guard of delegate over every instruction and every user message of
\* at most MaxLen characters: the agent is inside a round, with no, one or two
\* user messages in its history (the second one of MaxLen characters).
GuardHistories ==
    {<<>>}
    \cup {<<Message(USER, s)>> : s \in Strs}
    \cup {<<Message(USER, s), Message(ASSISTANT, "done"), Message(USER, t)>> :
            s \in Strs, t \in StrsOfLen(MaxLen)}

InitGuard ==
    /\ state = RUNNING
    /\ chat_history \in GuardHistories
    /\ old_state = [f \in Frames |-> IF f = RoundFrame THEN STOPPED ELSE None]
    /\ helpers = {}
    /\ helper_futures = EmptyDict
    /\ tasks = <<>>
    /\ pc = [c \in Slots |-> "idle"]
    /\ until = [c \in Slots |-> None]
    /\ fs = [c \in Slots |-> {}]
    /\ ret = NoCall
    /\ event_queue = <<>>
    /\ dispatch_task = "running"
    /\ listeners = <<>>
    /\ received = [l \in ListenerIds |-> <<>>]
    /\ playwright = None
    /\ browser = None
    /\ started = 0
    /\ launched = 0
    /\ gb_pc = [c \in Slots |-> "idle"]
    /\ gb_ret = [c \in Slots |-> None]
    /\ close_pc = "idle"
    /\ close_calls = 0
    /\ close_ret = "none"
    /\ attempted = {}
    /\ release_calls = [r \in Resources |-> 0]

NextGuard == \E i \in Strs, who \in WhoArgs : Delegate(i, who)

SpecGuard == InitGuard /\ [][NextGuard]_vars

\* ================================================================== claims
WaitReturned(fn) == ret.fn = fn /\ ret.kind = "text"
PendingNames == DOMAIN helper_futures
HelpersOf(futures) == {tasks[t].helper : t \in futures}
BlocksIn(order) ==
    [i \in 1..Len(order) |-> tasks[order[i]].helper \o ":\n" \o tasks[order[i]].result]

\* C1: when wait("all"), called with n >= 1 helpers pending, returns, its text
\* is exactly n blocks "<helperName>:\n<joinedText>" joined by the separator,
\* one for each helper that was pending at the call, and pending is empty.
C1_WaitAllReturnsEveryBlock ==
    WaitReturned("wait_all") =>
        /\ Cardinality(ret.fs) >= 1
        /\ Cardinality(HelpersOf(ret.fs)) = Cardinality(ret.fs)
        /\ \E order \in Orderings(ret.fs) :
             ret.text = StrJoin("\n\n=====\n\n", BlocksIn(order))
        /\ PendingNames = {}

C1_Witness ==
    /\ WaitReturned("wait_all")
    /\ Cardinality(ret.fs) >= 2
    /\ PendingNames = {}

\* C2: wait("next") called with two or more helpers pending returns once one
\* of them has finished, without waiting for the others; it removes from
\* pending exactly the helper whose result it returns, and every other helper
\* pending at the call is still pending, with the same future, on return.
C2_WaitNextTakesOne ==
    /\ \A c \in SeqSlots :
         (pc[c] = "wait_next" /\ Cardinality(fs[c]) >= 2
            /\ (\E t \in fs[c] : tasks[t].status # "running")
            /\ Len(event_queue) < MaxQueue)
         => ENABLED WaitNextResume(c)
    /\ (WaitReturned("wait_next") /\ Cardinality(ret.fs) >= 2) =>
         /\ ret.helper \notin PendingNames
         /\ \E t \in ret.fs :
              /\ tasks[t].helper = ret.helper
              /\ tasks[t].status = "done"
              /\ ret.text = ret.helper \o ":\n" \o tasks[t].result
              /\ \A u \in ret.fs \ {t} :
                   /\ tasks[u].helper \in PendingNames
                   /\ helper_futures[tasks[u].helper] = u

C2_Witness ==
    /\ WaitReturned("wait_next")
    /\ Cardinality(ret.fs) >= 2
    /\ \E u \in ret.fs : tasks[u].status = "running" /\ tasks[u].helper \in PendingNames

\* C3: delegate(instructions, who) with who the name of a helper that is in
\* pending returns a refusal text and changes neither helpers nor pending; no
\* task is created.
BusyRefused(who) ==
    /\ ret'.fn = "delegate"
    /\ ret'.text \in {BusyText(who), TooSimilarText}
    /\ helpers' = helpers
    /\ helper_futures' = helper_futures
    /\ tasks' = tasks
C3_BusyHelperRefused ==
    \A i \in Instructions, who \in WhoArgs :
        who \in DOMAIN helper_futures => ~ENABLED (Delegate(i, who) /\ ~BusyRefused(who))

C3_Witness ==
    /\ ret.fn = "delegate"
    /\ \E who \in PendingNames : ret.text = BusyText(who)

\* C5: with properly nested scopes and no ERRORED state, every exit restores
\* the state that was active at the entry: the state is always the target of
\* the innermost open scope (WAITING inside wait, RUNNING inside the round)
\* and STOPPED, the original state, when no scope is open.
NeverErrored == state # ERRORED /\ \A f \in Frames : old_state[f] # ERRORED
C5_NestedScopesRestore ==
    NeverErrored =>
        state = IF \E c \in Slots : old_state[c] # None THEN WAITING
                ELSE IF old_state[RoundFrame] # None THEN RUNNING
                ELSE STOPPED

C5_Witness ==
    /\ NeverErrored
    /\ ret.fn = "full_round"
    /\ state = STOPPED
    /\ tasks # <<>>
    /\ PendingNames = {}
    /\ \A f \in Frames : old_state[f] = None

\* C6: once the state is ERRORED inside a scope, the exit of that scope and of
\* the scopes around it leaves it ERRORED and publishes no state-change event;
\* ERRORED is only ever replaced by the entry of a new scope, which saves it.
ScopeExit ==
    \/ RoundEnd
    \/ \E c \in Slots : WaitNextResume(c) \/ WaitAllResume(c) \/ WaitNamedResume(c)
Published == SubSeq(event_queue', Len(event_queue) + 1, Len(event_queue'))
C6_ErroredSurvivesExit ==
    [][/\ (state = ERRORED /\ ScopeExit) =>
            /\ state' = ERRORED
            /\ \A i \in 1..Len(Published) : Published[i].type # "kani_state_change"
       /\ (state = ERRORED /\ state' # ERRORED) =>
            \E f \in Frames : old_state[f] = None /\ old_state'[f] = ERRORED
       /\ Blocked => state' = ERRORED]_vars

C6_Witness ==
    /\ ret.fn = "full_round"
    /\ state = ERRORED
    /\ UserCount = 1
    /\ \A f \in Frames : old_state[f] = None

\* C4 as claimed: delegate is refused with the guidance text, and creates no
\* helper and no unit of work, whenever the agent has a last user message and
\* the similarity ratio of the instructions and that message is >= 80.
GuardRatioAtLeast(i, pct) ==
    LET last == LastUserMessage(chat_history)
    IN  /\ last # NoMessage
        /\ RatioNum(i, last.content) >= pct * RatioDen(i, last.content)
GuardRatioOver(i, pct) ==
    LET last == LastUserMessage(chat_history)
    IN  /\ last # NoMessage
        /\ RatioNum(i, last.content) > pct * RatioDen(i, last.content)
GuardRefused ==
    /\ ret'.fn = "delegate"
    /\ ret'.text = TooSimilarText
    /\ helpers' = helpers
    /\ helper_futures' = helper_futures
    /\ tasks' = tasks
C4_RefusedFrom80 ==
    \A i \in Strs, who \in WhoArgs :
        GuardRatioAtLeast(i, 80) => ~ENABLED (Delegate(i, who) /\ ~GuardRefused)

\* C4 as amended: the refusal is made whenever last_user_message returns a
\* message and the ratio is strictly greater than 80: in no state can such a
\* call do anything but refuse.
C4_RefusedAbove80 ==
    \A i \in Strs, who \in WhoArgs :
        GuardRatioOver(i, 80) => ~ENABLED (Delegate(i, who) /\ ~GuardRefused)

C4_Witness ==
    /\ ret.fn = "delegate"
    /\ ret.text = TooSimilarText
    /\ LastUserMessage(chat_history) # NoMessage
    /\ helpers = {}
    /\ tasks = <<>>

\* ------------------------------------------------------- claims on SpecApp
\* every listener registered when the loop takes an event is invoked with it
Delivered ==
    \A l \in Range(listeners) : received'[l] = Append(received[l], Head(event_queue))

\* C7: the dispatch loop drains the queue in FIFO order and delivers each
\* event to every registered listener: whenever the loop takes the event at
\* the head of the queue, every listener registered by then has that event
\* added after the events it was invoked with before, so a listener registered
\* before A is dispatched is invoked with A and then with B.
C7_EveryListenerInvokedInOrder ==
    [][DispatchTask => /\ event_queue' = Tail(event_queue)
                       /\ Delivered]_vars

\* a listener that fails on every event it is invoked with
FailingListener == CHOOSE l \in ListenerIds : \A m \in ListenerIds : l <= m

\* C8: a failing listener does not stop the dispatch loop: with the failing
\* listener registered, after the loop has taken an event the loop is still
\* running, the failing listener has been invoked with the event, and so has
\* every other registered listener.
C8_FailingListenerIsolated ==
    [][(DispatchTask /\ FailingListener \in Range(listeners))
          => /\ dispatch_task' = "running"
             /\ received'[FailingListener] # received[FailingListener]
             /\ Delivered]_vars

\* the releases close() owes: both completion backends, and the browser when
\* it is initialised
DueReleases == {"engine", "long_engine"} \cup (IF browser # None THEN {"browser"} ELSE {})

\* C9: close() attempts every release even when an earlier one fails: when a
\* call of close() ends, by returning or by reporting a failure, the dispatcher
\* is cancelled and every due release has been attempted in that call.
C9_CloseAttemptsEveryRelease ==
    [][(close_pc # "idle" /\ close_pc' = "idle")
          => /\ dispatch_task' = "cancelled"
             /\ DueReleases \subseteq attempted']_vars

\* C10: close() called twice is idempotent: no underlying resource (completion
\* backend handles, browser, browser runtime) is released a second time.
C10_CloseTwiceReleasesOnce ==
    \A r \in Resources : release_calls[r] <= 1

\* ------------------------------------------------------ claims on SpecConc
\* the units of work whose results are in the text a wait call returned
Got(r) ==
    IF r.kind # "text" THEN {}
    ELSE IF r.fn \in {"wait_all", "wait_named"} THEN r.fs
    ELSE IF r.fn = "wait_next" THEN {t \in r.fs : tasks[t].helper = r.helper}
    ELSE {}
\* the wait("next") or wait("all") suspended in slot d ends in this step
GroupWaitEnds(d) == pc[d] \in {"wait_next", "wait_all"} /\ pc'[d] = "idle"

\* C11: a named wait reserves its helper: while wait(name) is blocked on a
\* unit of work, no wait("next") or wait("all") of the same agent that ends
\* returns that unit's result, and none fails because the name was already
\* removed from helper_futures.
C11_NamedWaitReserves ==
    [][\A c \in Slots : pc[c] = "wait_named" =>
          \A d \in Slots \ {c} : GroupWaitEnds(d) =>
              /\ Got(ret') \cap fs[c] = {}
              /\ ~(ret'.kind = "raise" /\ ret'.text = "KeyError")]_vars

\* ----------------------------------------------- claims on last_user_message
\* the user-role message that is last in the order of the history
MostRecentUser(history) ==
    LET users == SelectSeq(history, IsUser)
    IN  IF users = <<>> THEN NoMessage ELSE users[Len(users)]

\* C12: last_user_message returns the most recent user-role message of the
\* history, or none when the history has no user-role message: after two
\* delegations to the same helper it is the second instruction.
C12_ReturnsMostRecentUser ==
    LastUserMessage(chat_history) = MostRecentUser(chat_history)

\* ---------------------------------------------------- claims on get_browser
\* C13: over any interleaving of get_browser calls the browser runtime is
\* started at most once, the browser is launched at most once, and every call
\* returns the same browser handle.
C13_BrowserCreatedOnce ==
    /\ started <= 1
    /\ launched <= 1
    /\ \A c, d \in Slots : (gb_ret[c] # None /\ gb_ret[d] # None) => gb_ret[c] = gb_ret[d]

\* ------------------------------------------- claims on the order of results
\* the units of work of S in the order in which they were launched, which in
\* SpecInOrder is the order in which they completed
CompletionOrder(S) ==
    CHOOSE order \in Orderings(S) :
        \A i, j \in 1..Len(order) : i < j => order[i] < order[j]

\* C14: the blocks of the text returned by wait("all") are in the order in
\* which the helpers' units of work completed.
C14_BlocksInCompletionOrder ==
    WaitReturned("wait_all") =>
        ret.text = StrJoin(Separator, BlocksIn(CompletionOrder(ret.fs)))

\* ------------------------------------------------ claims on pending/helpers
\* C15: in every state reached by delegate and wait calls, every name in
\* helper_futures (pending) is a name in helpers.
C15_PendingAreHelpers ==
    DOMAIN helper_futures \subseteq helpers

\* a wait("next") has consumed one helper's work: that helper stays in helpers
\* while another one is still pending
C15_Witness ==
    /\ WaitReturned("wait_next")
    /\ ret.helper \in helpers \ DOMAIN helper_futures
    /\ DOMAIN helper_futures # {}

\* ------------------------------------------- claims on state-change events
IsStateChange(ev) == ev.type = "kani_state_change"
\* a step of the agent (the dispatch loop's steps only take events away)
AgentStep == Len(event_queue') >= Len(event_queue)
StateChanges == SelectSeq(Published, IsStateChange)
ScopeEntered(f) == old_state[f] = None /\ old_state'[f] # None
ScopeRestored(f) == old_state[f] # None /\ old_state'[f] = None /\ state # ERRORED

\* C16: every entry into a scope publishes the state-change event of the new
\* state before any event of the scope's body, every restoring exit publishes
\* the state-change event of the restored state as its last event, every
\* change of the state is published, and the last state-change event an
\* operation publishes carries the state the operation leaves, so that between
\* operations the most recently published state-change event carries the
\* current state.
C16_StateChangesPublished ==
    [][AgentStep =>
          /\ state' # state => StateChanges # <<>>
          /\ StateChanges # <<>> => StateChanges[Len(StateChanges)].state = state'
          /\ \A f \in Frames : ScopeEntered(f) =>
                Published # <<>> /\ Published[1] = KaniStateChange(SelfId, state')
          /\ \A f \in Frames : ScopeRestored(f) =>
                /\ state' = old_state[f]
                /\ Published # <<>>
                /\ Published[Len(Published)] = KaniStateChange(SelfId, old_state[f])]_vars

\* a round with a wait in it has ended: the last event in the queue is the
\* state change of the restored state
C16_Witness ==
    /\ ret.fn = "full_round"
    /\ tasks # <<>>
    /\ state = STOPPED
    /\ event_queue # <<>>
    /\ event_queue[Len(event_queue)] = KaniStateChange(SelfId, STOPPED)

\* ------------------------------------------------------ claims on SpecLive
WaitFns == {"wait_next", "wait_all", "wait_named"}
\* the wait of slot c has ended and the agent has left WAITING; it returned
\* its text unless a unit of work it awaited failed
WaitEnded(c) ==
    /\ pc[c] = "idle"
    /\ state # WAITING
    /\ ret.fn \in WaitFns
    /\ ret.kind = "text" \/ \E t \in ret.fs : tasks[t].status = "failed"

\* C17: under fair scheduling, when every unit of work completes, every wait
\* call that blocks on a non-empty pending set eventually ends, and then the
\* agent has left the WAITING state it entered for the call.
C17_WaitEventuallyReturns ==
    \A c \in SeqSlots : (pc[c] \in WaitFns) ~> WaitEnded(c)

\* a wait that blocked on two units of work has returned
C17_Witness ==
    /\ WaitEnded(1)
    /\ ret.kind = "text"
    /\ Cardinality(ret.fs) >= 2

\* ------------------------------------------------- claims on units of work
\* C18: no helper ever has two units of work executing at the same time: of
\* two units launched on the same helper, one has finished.
C18_OneUnitPerHelper ==
    \A t, u \in TaskIds :
        (t # u /\ tasks[t].helper = tasks[u].helper) => (Finished(t) \/ Finished(u))

\* the units of work this step removes from helper_futures
Removed == {helper_futures[n] : n \in DOMAIN helper_futures \ DOMAIN helper_futures'}

\* C19: no delegated result is silently dropped: when a wait("next") or
\* wait("all") ends, every unit of work it removes from helper_futures has its
\* result in the text it returns, so a helper delegated while a wait("all") is
\* blocked is in that text or still pending; and a named wait that returns has
\* the result of the unit it removed in its text.
C19_NoResultDropped ==
    [][\A c \in Slots :
          /\ GroupWaitEnds(c) => Removed \subseteq Got(ret')
          /\ (pc[c] = "wait_named" /\ pc'[c] = "idle" /\ ret'.kind = "text")
                => fs[c] \subseteq Got(ret')]_vars

\* ---------------------------------------------------- claims on SpecScopes
NoScopeActive == \A f \in Frames : old_state[f] = None

\* C20: for any interleaving of scoped transitions of one agent, overlapping
\* ones included, whenever no scope of the agent is active and its state was
\* never set to ERRORED, the state is STOPPED.
C20_StoppedWhenNoScope ==
    (NoScopeActive /\ state # ERRORED) => state = STOPPED

\* ------------------------------------------- claims on the failures of wait
\* wait("next") or wait("all") is called in this step with nothing pending
EmptyWaitCall ==
    /\ helper_futures = EmptyDict
    /\ \E c \in SeqSlots, arg \in {"next", "all"} : WaitCall(c, arg)

\* C21: wait("next") and wait("all") called when pending is empty return an
\* ordinary text instead of failing with an error, leave pending empty and
\* leave the agent's state as it was before the call.
C21_EmptyWaitReturnsText ==
    [][EmptyWaitCall =>
          /\ ret'.fn \in {"wait_next", "wait_all"}
          /\ ret'.kind = "text"
          /\ helper_futures' = EmptyDict
          /\ state' = state]_vars

Failed(t) == tasks[t].status = "failed"
\* the last call was a wait("next") or wait("all") that surfaced the failure
\* of a unit of work it awaited
FailureSurfaced ==
    /\ ret.fn \in {"wait_next", "wait_all"}
    /\ ret.kind = "raise"
    /\ ret.text = "HelperError"

\* C22: when wait("next") or wait("all") surfaces the failure of a helper's
\* unit of work, the helper's name is removed from pending: a failed unit the
\* call awaited is no longer registered, so that delegate(who=name) does not
\* report the helper busy and a later wait("next") does not surface the same
\* failure again; and after a wait("all") pending is empty.
C22_FailureConsumed ==
    FailureSurfaced =>
        /\ \E t \in ret.fs : Failed(t) /\ t \notin DictValues(helper_futures)
        /\ ret.fn = "wait_all" => helper_futures = EmptyDict

====
